---- MODULE Spec2Model ----
(***************************************************************************)
(* Model of scan_zyn_codes.py: the one-time decoder selection done at      *)
(* import, main()'s argument handling, the frame-sampling loop with its    *)
(* optional debug view, extract_codes_from_frame, the dedup accumulator    *)
(* and the result sink.                                                    *)
(*                                                                         *)
(* Text is a sequence of one-character strings ("LF" stands for the line   *)
(* feed, "xFF" for a byte that is not valid UTF-8).  A frame is what the    *)
(* decoders see in it: the payload of every QR symbol, and whether a       *)
(* decode call raises on it.                                               *)
(***************************************************************************)
EXTENDS Integers, Sequences, FiniteSets, TLC

VARIABLES
    pc,            \* position of the process
    have_pyzbar,   \* module global: TRUE = pyzbar backend, FALSE = OpenCV fallback
    args,          \* argparse namespace
    cap,           \* the cv2.VideoCapture: "none", "failed", "opened", "released"
    nframes,       \* number of frames the opened source holds
    frame_idx,     \* main(): frame_idx
    frame,         \* main(): frame, the frame last read
    codes,         \* main(): codes, the set the last extraction returned
    new_codes,     \* main(): new_codes of the last sampled frame
    unique_codes,  \* main(): unique_codes
    found,         \* stdout: the codes printed after 'Found code:', in order
    printed,       \* stdout: the codes printed by the sink when no --output
    out_file,      \* the file at args.output
    exit_code,     \* process exit status, -1 while running
    traceback,     \* the uncaught exception that ended the run, "none" otherwise
    sampled,       \* frame indexes that passed the interval test
    extracted,     \* frame indexes handed to extract_codes_from_frame
    nodebug,       \* the same run without --debug, on the same frames
    all_codes      \* every code some call of extract_codes_from_frame returned

vars == <<pc, have_pyzbar, args, cap, nframes, frame_idx, frame, codes,
          new_codes, unique_codes, found, printed, out_file, exit_code,
          traceback, sampled, extracted, nodebug, all_codes>>

(***************************************************************************)
(* Bounds                                                                  *)
(***************************************************************************)
MaxFrames == 3
MaxInterval == 2
MaxLen == 3
MaxPatMin == 2

(***************************************************************************)
(* Text                                                                    *)
(***************************************************************************)
Chars == {"LF", " ", "/", "A", "a"}
Bytes == Chars \cup {"xFF"}

\* code point of a character, the order Python's sorted() uses on str
Ord(c) ==
    CASE c = "LF" -> 10
      [] c = " "  -> 32
      [] c = "/"  -> 47
      [] c = "A"  -> 65
      [] c = "a"  -> 97

IsSpace(c) == c \in {"LF", " "}

\* str.strip()
RECURSIVE LStrip(_)
LStrip(s) ==
    IF s = <<>> THEN s
    ELSE IF IsSpace(Head(s)) THEN LStrip(Tail(s)) ELSE s

RECURSIVE RStrip(_)
RStrip(s) ==
    IF s = <<>> THEN s
    ELSE IF IsSpace(s[Len(s)]) THEN RStrip(SubSeq(s, 1, Len(s) - 1)) ELSE s

Strip(s) == RStrip(LStrip(s))

\* bytes.decode('utf-8', errors='ignore'): invalid bytes are dropped
RECURSIVE Utf8Ignore(_)
Utf8Ignore(data) ==
    IF data = <<>> THEN <<>>
    ELSE IF Head(data) \in Chars
         THEN <<Head(data)>> \o Utf8Ignore(Tail(data))
         ELSE Utf8Ignore(Tail(data))

\* str comparison a < b
RECURSIVE StrLess(_, _)
StrLess(a, b) ==
    IF b = <<>> THEN FALSE
    ELSE IF a = <<>> THEN TRUE
    ELSE IF Head(a) = Head(b) THEN StrLess(Tail(a), Tail(b))
    ELSE Ord(Head(a)) < Ord(Head(b))

\* sorted(S) for a set of str
RECURSIVE Sorted(_)
Sorted(S) ==
    IF S = {} THEN <<>>
    ELSE LET m == CHOOSE x \in S : \A y \in S \ {x} : StrLess(x, y)
         IN  <<m>> \o Sorted(S \ {m})

(***************************************************************************)
(* Regular expressions                                                     *)
(***************************************************************************)
\* A --pattern is [cls]{min,}; InvalidPattern is a text re.compile rejects.
InvalidPattern == [cls |-> {}, min |-> -1]

PatternClasses == {{"A"}, {"a", " "}, Chars}

ValidPatterns == [cls : PatternClasses, min : 0..MaxPatMin]

\* re.IGNORECASE on one character
Fold(c) == IF c = "a" THEN "A" ELSE c

ClassMatch(c, cls) == \E d \in cls : Fold(c) = Fold(d)

\* code_regex.fullmatch(code) is not None
FullMatch(code_regex, code) ==
    /\ Len(code) >= code_regex.min
    /\ \A i \in 1..Len(code) : ClassMatch(code[i], code_regex.cls)

TailSearchAnchoredStart(s) ==
    IF s # <<>> /\ \A j \in 1..Len(s) : s[j] # "/"
    THEN [found |-> TRUE, group |-> s]
    ELSE [found |-> FALSE, group |-> <<>>]

\* re.search(r'[^/]+$', s): the leftmost start from which only non-slash
\* characters run to the end of s
TailSearch(s) ==
    LET starts == {i \in 1..Len(s) : \A j \in i..Len(s) : s[j] # "/"}
    IN  IF starts = {} THEN [found |-> FALSE, group |-> <<>>]
        ELSE LET i == CHOOSE k \in starts : \A l \in starts : k <= l
             IN  [found |-> TRUE, group |-> SubSeq(s, i, Len(s))]

(***************************************************************************)
(* Frames and the decoder calls                                            *)
(***************************************************************************)
\* A frame: objs[i] is the data of the i-th symbol as pyzbar returns it,
\* decoded_info[i] the text OpenCV returns for it.  fault = "decode": every
\* decode call raises on this frame; fault = "multi": detectAndDecodeMulti
\* raises on it and the single-symbol calls do not.
MkFrame(objs, fault) ==
    [objs |-> objs,
     decoded_info |-> [i \in DOMAIN objs |-> Utf8Ignore(objs[i])],
     fault |-> fault]

NoFrame == MkFrame(<<>>, "none")

\* pyzbar_decode(gray, symbols=[ZBarSymbol.QRCODE])
PyzbarRaises(f) == f.fault = "decode"

\* detector_cv.detectAndDecodeMulti(frame)
MultiRaises(f) == f.fault \in {"multi", "decode"}

\* detector_cv.detectAndDecode(frame) and detector_cv.detect(frame)
SingleRaises(f) == f.fault = "decode"

\* data of detector_cv.detectAndDecode(frame): the first symbol's text
SingleData(f) == IF f.decoded_info = <<>> THEN <<>> ELSE f.decoded_info[1]

(***************************************************************************)
(* extract_codes_from_frame                                                *)
(***************************************************************************)
\* the body run for one decoded url (lines 83-92, again 105-114)
PayloadCodes(url, code_regex, full_url) ==
    IF full_url THEN {url}
    ELSE LET match == TailSearch(Strip(url))
         IN  IF ~match.found THEN {}
             ELSE IF FullMatch(code_regex, match.group) THEN {match.group}
             ELSE {}

\* the have_pyzbar branch
PrimaryBranch(f, code_regex, full_url) ==
    IF PyzbarRaises(f) THEN [raised |-> TRUE, codes |-> {}]
    ELSE [raised |-> FALSE,
          codes |-> UNION {PayloadCodes(Utf8Ignore(f.objs[i]), code_regex, full_url) :
                           i \in DOMAIN f.objs}]

FallbackLoopTailOnly(ok, decoded_info, code_regex, full_url) ==
    IF ~ok THEN {}
    ELSE UNION {IF decoded_info[i] = <<>> THEN {}
                ELSE PayloadCodes(decoded_info[i], code_regex, FALSE) :
                i \in DOMAIN decoded_info}

\* the loop over decoded_info (lines 101-114)
FallbackLoop(ok, decoded_info, code_regex, full_url) ==
    IF ~ok THEN {}
    ELSE UNION {IF decoded_info[i] = <<>> THEN {}
                ELSE PayloadCodes(decoded_info[i], code_regex, full_url) :
                i \in DOMAIN decoded_info}

\* the OpenCV branch
FallbackBranch(f, code_regex, full_url) ==
    IF ~MultiRaises(f)
    THEN [raised |-> FALSE,
          codes |-> FallbackLoop(f.decoded_info # <<>>, f.decoded_info,
                                 code_regex, full_url)]
    ELSE IF SingleRaises(f) THEN [raised |-> TRUE, codes |-> {}]
    ELSE LET data == SingleData(f)
         IN  [raised |-> FALSE,
              codes |-> FallbackLoop(data # <<>>,
                                     IF data # <<>> THEN <<data>> ELSE <<>>,
                                     code_regex, full_url)]

\* args.upsample only changes the image handed to the decoder; what the
\* decoder finds in it is the frame's content here.
extract_codes_from_frame(f, code_regex, full_url) ==
    IF have_pyzbar THEN PrimaryBranch(f, code_regex, full_url)
    ELSE FallbackBranch(f, code_regex, full_url)

(***************************************************************************)
(* The accumulator and the sink                                            *)
(***************************************************************************)
NewCodesNoDiff(cs, unique) == cs

\* new_codes = codes - unique_codes
NewCodes(cs, unique) == cs \ unique

\* the text written by f.write(code + '\n') for code in sorted(unique_codes)
RECURSIVE JoinLines(_)
JoinLines(seq) ==
    IF seq = <<>> THEN <<>>
    ELSE Head(seq) \o <<"LF">> \o JoinLines(Tail(seq))

RECURSIVE Reversed(_)
Reversed(seq) ==
    IF seq = <<>> THEN <<>> ELSE Reversed(Tail(seq)) \o <<Head(seq)>>

FileTextDescending(unique) == JoinLines(Reversed(Sorted(unique)))

FileText(unique) == JoinLines(Sorted(unique))

\* the lines of a text file, as iterating over the open file gives them
\* (without their line feed)
RECURSIVE FileLines(_, _)
FileLines(text, cur) ==
    IF text = <<>> THEN (IF cur = <<>> THEN <<>> ELSE <<cur>>)
    ELSE IF Head(text) = "LF" THEN <<cur>> \o FileLines(Tail(text), <<>>)
    ELSE FileLines(Tail(text), Append(cur, Head(text)))

\* submit_zyn_codes.py: codes = [line.strip() for line in f if line.strip()]
ReadCodesFile(text) ==
    LET lines == FileLines(text, <<>>)
        kept  == SelectSeq(lines, LAMBDA l : Strip(l) # <<>>)
    IN  [i \in DOMAIN kept |-> Strip(kept[i])]

(***************************************************************************)
(* Inputs of a scan run                                                    *)
(***************************************************************************)
U_AA    == <<"a", "/", "A", "A">>
U_Aa    == <<"a", "/", "A", "a">>
U_Space == <<"A", "/", " ", "a", " ">>
U_Line  == <<"A", "LF", "A">>
U_Empty == <<>>

\* what cap.read() can return as a frame
FramePool ==
    {MkFrame(<<>>, "none"),
     MkFrame(<<U_AA>>, "none"),
     MkFrame(<<U_AA, U_Aa>>, "none"),
     MkFrame(<<U_Space>>, "none"),
     MkFrame(<<U_Line>>, "none"),
     MkFrame(<<U_Empty>>, "none"),
     MkFrame(<<U_Aa, U_AA>>, "multi"),
     MkFrame(<<U_AA>>, "decode")}

\* --interval takes any int
Intervals == (-1)..MaxInterval

\* --pattern values of a run
PatternPool ==
    {InvalidPattern,
     [cls |-> {"A"}, min |-> MaxPatMin],
     [cls |-> Chars, min |-> 0]}

\* argparse's default for --interval
DefaultInterval == 10

\* the namespace before parse_args() has filled it
NoArgs ==
    [interval |-> DefaultInterval, pattern |-> InvalidPattern, output |-> FALSE,
     full_url |-> FALSE, debug |-> FALSE]

\* exists: the path holds a file; text: its content; complete: the with
\* block that writes it ran to its end
NoFile == [exists |-> FALSE, text |-> <<>>, complete |-> FALSE]

\* Python's a % b for b # 0: the result has the sign of b
PyMod(a, b) == IF b > 0 THEN a % b ELSE -((-a) % (-b))

(***************************************************************************)
(* The run without --debug on the same frames: one whole loop iteration    *)
(* (lines 154-156 and 182-187) on frame f read as number i.                *)
(***************************************************************************)
AccumulateOverwrite(unique, announced, cs) ==
    LET new == NewCodes(cs, unique)
    IN  [unique |-> new, found |-> announced \o Sorted(new), new |-> new]

\* new_codes, the announcements, unique_codes.update(new_codes)
Accumulate(unique, announced, cs) ==
    LET new == NewCodes(cs, unique)
    IN  [unique |-> unique \cup new, found |-> announced \o Sorted(new), new |-> new]

NoDebugInit == [unique |-> {}, found |-> <<>>, sampled |-> {}, crashed |-> FALSE]

NoDebugIteration(nd, f, i) ==
    IF nd.crashed THEN nd
    ELSE IF args.interval = 0 THEN [nd EXCEPT !.crashed = TRUE]
    ELSE IF PyMod(i, args.interval) # 0 THEN nd
    ELSE LET r == extract_codes_from_frame(f, args.pattern, args.full_url)
             a == Accumulate(nd.unique, nd.found, r.codes)
         IN  IF r.raised
             THEN [nd EXCEPT !.sampled = @ \cup {i}, !.crashed = TRUE]
             ELSE [unique |-> a.unique, found |-> a.found,
                   sampled |-> nd.sampled \cup {i}, crashed |-> FALSE]

(***************************************************************************)
(* main()                                                                  *)
(***************************************************************************)
Init ==
    /\ pc = "parse"
    /\ have_pyzbar \in BOOLEAN
    /\ args = NoArgs
    /\ cap = "none"
    /\ nframes = 0
    /\ frame_idx = 0
    /\ frame = NoFrame
    /\ codes = {}
    /\ new_codes = {}
    /\ unique_codes = {}
    /\ found = <<>>
    /\ printed = <<>>
    /\ out_file = NoFile
    /\ exit_code = -1
    /\ traceback = "none"
    /\ sampled = {}
    /\ extracted = {}
    /\ nodebug = NoDebugInit
    /\ all_codes = {}

\* sys.exit(status), or an exception nobody catches (status 1)
Exit(status, exc) ==
    /\ pc' = "exit"
    /\ exit_code' = status
    /\ traceback' = exc

\* parser.parse_args(): argparse exits with status 2 on a command line it rejects
ParseArgs ==
    /\ pc = "parse"
    /\ \/ /\ Exit(2, "none")
          /\ UNCHANGED args
       \/ /\ \E k \in Intervals, p \in PatternPool, o \in BOOLEAN,
               fu \in BOOLEAN, d \in BOOLEAN :
               args' = [interval |-> k, pattern |-> p, output |-> o,
                        full_url |-> fu, debug |-> d]
          /\ pc' = "compile"
          /\ UNCHANGED <<exit_code, traceback>>
    /\ UNCHANGED <<have_pyzbar, cap, nframes, frame_idx, frame, codes, new_codes,
                   unique_codes, found, printed, out_file, sampled, extracted,
                   nodebug,
                   all_codes>>

\* re.compile(args.pattern, re.IGNORECASE)
CompilePattern ==
    /\ pc = "compile"
    /\ IF args.pattern = InvalidPattern
       THEN Exit(1, "none")
       ELSE pc' = "open" /\ UNCHANGED <<exit_code, traceback>>
    /\ UNCHANGED <<have_pyzbar, args, cap, nframes, frame_idx, frame, codes,
                   new_codes, unique_codes, found, printed, out_file, sampled,
                   extracted, nodebug,
                   all_codes>>

OpenVideoUnchecked ==
    /\ pc = "open"
    /\ \E opened \in BOOLEAN, n \in 0..MaxFrames :
          /\ cap' = IF opened THEN "opened" ELSE "failed"
          /\ nframes' = IF opened THEN n ELSE 0
    /\ pc' = "read"
    /\ unique_codes' = {}
    /\ frame_idx' = 0
    /\ UNCHANGED <<have_pyzbar, args, frame, codes, new_codes, found, printed,
                   out_file, sampled, extracted, nodebug, exit_code, traceback,
                   all_codes>>

\* cap = cv2.VideoCapture(args.video); exit 1 unless cap.isOpened();
\* then unique_codes = set(), frame_idx = 0
OpenVideo ==
    /\ pc = "open"
    /\ \E opened \in BOOLEAN, n \in 0..MaxFrames :
          IF opened
          THEN /\ cap' = "opened"
               /\ nframes' = n
               /\ unique_codes' = {}
               /\ frame_idx' = 0
               /\ pc' = "read"
               /\ UNCHANGED <<exit_code, traceback>>
          ELSE /\ cap' = "failed"
               /\ nframes' = 0
               /\ Exit(1, "none")
               /\ UNCHANGED <<unique_codes, frame_idx>>
    /\ UNCHANGED <<have_pyzbar, args, frame, codes, new_codes, found, printed,
                   out_file, sampled, extracted, nodebug,
                   all_codes>>

\* ret, frame = cap.read(); frame_idx += 1; the interval test
ReadFrame ==
    /\ pc = "read"
    /\ IF cap = "opened" /\ frame_idx < nframes
       THEN \E f \in FramePool :
              /\ frame' = f
              /\ frame_idx' = frame_idx + 1
              /\ nodebug' = NoDebugIteration(nodebug, f, frame_idx + 1)
              /\ IF args.interval = 0
                 THEN Exit(1, "ZeroDivisionError") /\ UNCHANGED sampled
                 ELSE IF PyMod(frame_idx + 1, args.interval) # 0
                 THEN pc' = "read" /\ UNCHANGED <<sampled, exit_code, traceback>>
                 ELSE /\ sampled' = sampled \cup {frame_idx + 1}
                      /\ pc' = IF args.debug THEN "debug" ELSE "scan"
                      /\ UNCHANGED <<exit_code, traceback>>
       ELSE /\ frame' = NoFrame
            /\ pc' = "sink"
            /\ UNCHANGED <<frame_idx, nodebug, sampled, exit_code, traceback>>
    /\ UNCHANGED <<have_pyzbar, args, cap, nframes, codes, new_codes,
                   unique_codes, found, printed, out_file, extracted,
                   all_codes>>

DebugFrameDrawnOn(f) == MkFrame(<<>>, f.fault)

\* the frame after the debug view: the overlay is drawn on dbg = frame.copy()
DebugFrame(f) == f

\* the debug view of a sampled frame, and the 'q' key that turns it off
DebugView ==
    /\ pc = "debug"
    /\ IF (have_pyzbar /\ PyzbarRaises(frame)) \/ (~have_pyzbar /\ SingleRaises(frame))
       THEN Exit(1, "DecodeError") /\ UNCHANGED <<args, frame>>
       ELSE /\ \E key_q \in BOOLEAN : args' = [args EXCEPT !.debug = ~key_q]
            /\ frame' = DebugFrame(frame)
            /\ pc' = "scan"
            /\ UNCHANGED <<exit_code, traceback>>
    /\ UNCHANGED <<have_pyzbar, cap, nframes, frame_idx, codes, new_codes,
                   unique_codes, found, printed, out_file, sampled, extracted,
                   nodebug,
                   all_codes>>

\* codes = extract_codes_from_frame(...); new_codes; 'Found code:'; update
ScanFrame ==
    /\ pc = "scan"
    /\ extracted' = extracted \cup {frame_idx}
    /\ all_codes' = all_codes
          \cup extract_codes_from_frame(frame, args.pattern, args.full_url).codes
    /\ LET r == extract_codes_from_frame(frame, args.pattern, args.full_url)
           a == Accumulate(unique_codes, found, r.codes)
       IN  IF r.raised
           THEN /\ Exit(1, "DecodeError")
                /\ UNCHANGED <<codes, new_codes, unique_codes, found>>
           ELSE /\ codes' = r.codes
                /\ new_codes' = a.new
                /\ found' = a.found
                /\ unique_codes' = a.unique
                /\ pc' = "read"
                /\ UNCHANGED <<exit_code, traceback>>
    /\ UNCHANGED <<have_pyzbar, args, cap, nframes, frame_idx, frame, printed,
                   out_file, sampled, nodebug>>

\* cap.release(), the total, then the file at --output or the codes on stdout;
\* an IOError of open() or of a write is reported and the run ends normally
Sink ==
    /\ pc = "sink"
    /\ cap' = IF cap = "opened" THEN "released" ELSE cap
    /\ IF args.output
       THEN /\ \E io \in {"ok", "open fails", "write fails"} :
                 out_file' =
                    CASE io = "ok" ->
                           [exists |-> TRUE, text |-> FileText(unique_codes),
                            complete |-> TRUE]
                      [] io = "open fails" -> out_file
                      [] io = "write fails" ->
                           [exists |-> TRUE, text |-> <<>>, complete |-> FALSE]
            /\ UNCHANGED printed
       ELSE /\ printed' = Sorted(unique_codes)
            /\ UNCHANGED out_file
    /\ Exit(0, "none")
    /\ UNCHANGED <<have_pyzbar, args, nframes, frame_idx, frame, codes, new_codes,
                   unique_codes, found, sampled, extracted, nodebug,
                   all_codes>>

Next ==
    \/ ParseArgs
    \/ CompilePattern
    \/ OpenVideo
    \/ ReadFrame
    \/ DebugView
    \/ ScanFrame
    \/ Sink

Spec == Init /\ [][Next]_vars

(***************************************************************************)
(* extract_codes_from_frame on its own: one call on every frame of up to   *)
(* two symbols, the first of any data of up to MaxLen bytes, under every   *)
(* pattern, both modes and both backends.                                  *)
(***************************************************************************)
StrUpTo(n) == UNION {[1..k -> Bytes] : k \in 0..n}

SecondSymbols == {<<>>, <<"/", "A">>}

ExtractFrames ==
    {MkFrame(<<>>, "none")}
      \cup {MkFrame(<<d>>, "none") : d \in StrUpTo(MaxLen)}
      \cup {MkFrame(<<d, e>>, "none") : d \in StrUpTo(MaxLen), e \in SecondSymbols}

InitExtract ==
    /\ pc = "extract_call"
    /\ have_pyzbar \in BOOLEAN
    /\ frame \in ExtractFrames
    /\ \E p \in ValidPatterns, fu \in BOOLEAN :
          args = [NoArgs EXCEPT !.pattern = p, !.full_url = fu]
    /\ cap = "none"
    /\ nframes = 0
    /\ frame_idx = 0
    /\ codes = {}
    /\ new_codes = {}
    /\ unique_codes = {}
    /\ found = <<>>
    /\ printed = <<>>
    /\ out_file = NoFile
    /\ exit_code = -1
    /\ traceback = "none"
    /\ sampled = {}
    /\ extracted = {}
    /\ nodebug = NoDebugInit
    /\ all_codes = {}

ExtractCall ==
    /\ pc = "extract_call"
    /\ LET r == extract_codes_from_frame(frame, args.pattern, args.full_url)
       IN  /\ codes' = r.codes
           /\ pc' = IF r.raised THEN "extract_raised" ELSE "extract_ret"
    /\ UNCHANGED <<have_pyzbar, args, cap, nframes, frame_idx, frame, new_codes,
                   unique_codes, found, printed, out_file, exit_code, traceback,
                   sampled, extracted, nodebug,
                   all_codes>>

NextExtract == ExtractCall

SpecExtract == InitExtract /\ [][NextExtract]_vars

(***************************************************************************)
(* Claims                                                                  *)
(***************************************************************************)
Opened == cap \in {"opened", "released"}

\* C1: a run over a source of nframes frames with interval K >= 1 hands
\* frame i to extract_codes_from_frame iff i mod K = 0, so when the run has
\* ended exactly floor(nframes / K) frames were extracted from.
C1_SamplingCount ==
    (pc = "exit" /\ Opened /\ args.interval >= 1) =>
        /\ extracted = {i \in 1..nframes : i % args.interval = 0}
        /\ Cardinality(extracted) = nframes \div args.interval

\* C2: no code is announced with 'Found code:' twice in one run, however
\* often it is decoded again; a code set fed a second time announces nothing.
C2_FoundOnce ==
    \A i, j \in DOMAIN found : i # j => found[i] # found[j]

\* C2 witness: a later sampled frame decoded codes that were all known
\* already, and nothing was announced for it.
C2_Redecoded ==
    /\ pc = "read"
    /\ Cardinality(extracted) >= 2
    /\ codes # {}
    /\ new_codes = {}
    /\ found # <<>>

\* C3: a run whose command line parsed exits with 1 exactly when the pattern
\* is invalid or the source cannot be opened, and with 0 in every other case.
C3_ExitCodes ==
    (pc = "exit" /\ args # NoArgs) =>
        exit_code = IF args.pattern = InvalidPattern \/ cap = "failed" THEN 1 ELSE 0

\* a code that comes back from the file as it was written
CleanCode(c) ==
    /\ c # <<>>
    /\ ~IsSpace(c[1])
    /\ ~IsSpace(c[Len(c)])
    /\ \A i \in 1..Len(c) : c[i] # "LF"

\* C4 as stated: whatever set was accumulated, in either mode, the file read
\* back (lines, trimmed) is the sorted unique set.
C4_RoundTrip ==
    out_file.complete => ReadCodesFile(out_file.text) = Sorted(unique_codes)

\* C4 amended: the file read back is the sorted unique set when every code is
\* non-empty, holds no line feed and has no whitespace at either end; tail
\* mode under a pattern that admits no whitespace accumulates only such codes.
C4_RoundTripClean ==
    /\ (out_file.complete /\ \A c \in unique_codes : CleanCode(c)) =>
          ReadCodesFile(out_file.text) = Sorted(unique_codes)
    /\ (pc \in {"read", "sink", "exit"} /\ Opened /\ ~args.full_url
          /\ \A ch \in args.pattern.cls : ~IsSpace(ch)) =>
          \A c \in unique_codes : CleanCode(c)

\* C4 witness: a file written from two or more clean codes.
C4_FileWritten ==
    /\ out_file.complete
    /\ Cardinality(unique_codes) >= 2
    /\ \A c \in unique_codes : CleanCode(c)

\* C5: when the source cannot be opened the run has ended with a non-zero
\* status, no frame was read, nothing was extracted or announced and no
\* output was written.
C5_UnopenableAborts ==
    cap = "failed" =>
        /\ pc = "exit"
        /\ exit_code > 0
        /\ frame_idx = 0
        /\ frame = NoFrame
        /\ sampled = {}
        /\ extracted = {}
        /\ found = <<>>
        /\ printed = <<>>
        /\ ~out_file.exists

\* C5 witness: the open failed in a run that was given --output.
C5_OpenFailed ==
    cap = "failed" /\ args.output

\* the claim's candidate: what follows the last '/' of the trimmed payload,
\* the whole trimmed payload when it holds no '/'
Candidate(url) ==
    LET t == Strip(url)
        slashes == {i \in 1..Len(t) : t[i] = "/"}
        last == IF slashes = {} THEN 0
                ELSE CHOOSE i \in slashes : \A j \in slashes : j <= i
    IN  SubSeq(t, last + 1, Len(t))

Payloads == {frame.decoded_info[i] : i \in DOMAIN frame.decoded_info}

\* C6 as stated: in tail mode the result holds a payload's candidate exactly
\* when the candidate fully matches the pattern, and holds nothing else.
C6_TailCodes ==
    (pc = "extract_ret" /\ ~args.full_url) =>
        codes = {Candidate(u) : u \in {v \in Payloads :
                                       FullMatch(args.pattern, Candidate(v))}}

\* C6 amended: ... exactly when the candidate is not empty and fully matches
\* the pattern.
C6_TailCodesNonEmpty ==
    (pc = "extract_ret" /\ ~args.full_url) =>
        codes = {Candidate(u) : u \in {v \in Payloads :
                                       /\ Candidate(v) # <<>>
                                       /\ FullMatch(args.pattern, Candidate(v))}}

\* C6 witness: a payload with text before a '/' and whitespace around it,
\* whose candidate was returned.
C6_TailReturned ==
    /\ pc = "extract_ret"
    /\ ~args.full_url
    /\ \E u \in Payloads :
          /\ \E i \in 1..Len(u) : u[i] = "/"
          /\ Strip(u) # u
          /\ Candidate(u) \in codes

\* what the branch that was not selected returns for the same frame
OtherBranch ==
    IF have_pyzbar THEN FallbackBranch(frame, args.pattern, args.full_url)
    ELSE PrimaryBranch(frame, args.pattern, args.full_url)

\* C7 as stated: both branches return the same set for the same payloads,
\* every pattern and both modes, empty payloads and the empty list included.
C7_BranchesEqual ==
    pc = "extract_ret" => codes = OtherBranch.codes

\* C7 amended: ... unless full_url is set and a decoded payload is empty.
C7_BranchesEqualNonEmpty ==
    (pc = "extract_ret" /\ ~(args.full_url /\ <<>> \in Payloads)) =>
        codes = OtherBranch.codes

\* C7 witness: a frame of two symbols in full-url mode, both returned.
C7_TwoPayloads ==
    /\ pc = "extract_ret"
    /\ args.full_url
    /\ Len(frame.objs) = 2
    /\ Cardinality(codes) = 2

\* C8: when the selected backend raises on a sampled frame the scan goes on
\* to the next read with the unique-code set and the backend as they were.
C8_FailureSwallowed ==
    [][(pc = "scan"
          /\ extract_codes_from_frame(frame, args.pattern, args.full_url).raised) =>
         (pc' = "read" /\ unique_codes' = unique_codes
            /\ have_pyzbar' = have_pyzbar)]_vars

\* C9: no run ends with the source opened and not released.
C9_SourceReleased ==
    pc = "exit" => cap # "opened"

\* C10: between frames and at the end, the run has sampled the frames, holds
\* the unique codes, has made the announcements and has failed or not,
\* exactly as the run without --debug on the same frames.
C10_DebugCosmetic ==
    pc \in {"read", "sink", "exit"} =>
        /\ sampled = nodebug.sampled
        /\ unique_codes = nodebug.unique
        /\ found = nodebug.found
        /\ (traceback # "none") = nodebug.crashed

\* C10 witness: a run that kept --debug on to its end, over two sampled
\* frames or more, and found codes.
C10_DebugRun ==
    /\ pc = "exit"
    /\ exit_code = 0
    /\ args.debug
    /\ Cardinality(sampled) >= 2
    /\ unique_codes # {}

\* C11: the unique-code set is at every point the union of the sets
\* extracted from the sampled frames so far; no step removes a code from it,
\* a sampled frame adds exactly its codes that were not yet present, and the
\* sink writes or prints that union.
C11_UniqueIsUnion ==
    /\ [](/\ unique_codes = all_codes
          /\ (pc \in {"parse", "compile", "open"} => unique_codes = {})
          /\ (out_file.complete => out_file.text = JoinLines(Sorted(all_codes)))
          /\ (pc = "exit" /\ exit_code = 0 /\ ~args.output =>
                printed = Sorted(all_codes)))
    /\ [][/\ unique_codes \subseteq unique_codes'
          /\ (pc = "scan" /\ pc' = "read" =>
                unique_codes' \ unique_codes = codes' \ unique_codes)
          /\ (pc # "scan" => unique_codes' = unique_codes)]_vars

\* C11 witness: a run that reached the sink after a sampled frame that held
\* both codes already present and a new one.
C11_GrewByNewCodes ==
    /\ pc = "exit"
    /\ exit_code = 0
    /\ new_codes # {}
    /\ new_codes # codes
    /\ Cardinality(unique_codes) >= 2

====
